---- MODULE Spec2Model ----
(***************************************************************************)
(* Constantine: pseudo-constness analysis over a clang AST.                *)
(*                                                                         *)
(* Four state machines are modelled:                                       *)
(*   - the reference-closure work-list of GetReferedVariables              *)
(*     (sources/DeclarationCollector.cpp), specifications SpecClosure and  *)
(*     FairClosure;                                                        *)
(*   - the production pass of AnalyseVariableUsage                         *)
(*     (sources/ModuleAnalysis.cpp) over the scope analysis of             *)
(*     sources/ScopeAnalysis.cpp: specification Spec over functions        *)
(*     visited in any order, specification SpecClass over a translation    *)
(*     unit of method definitions visited in source order;                 *)
(*   - the walk of MethodAnalysis::VisitCXXThisExpr                        *)
(*     (sources/ScopeAnalysis.cpp), specification SpecMethodAnalysis;      *)
(*   - VariableChangeCollector at one call node                            *)
(*     (sources/ScopeAnalysis.cpp), specification SpecCollector.           *)
(***************************************************************************)
EXTENDS Integers, Sequences, FiniteSets, Bags, TLC

VARIABLES
    \* --- GetReferedVariables (DeclarationCollector.cpp:152-184) ---
    cdecls,     \* the declarations of the analysed code: type and initializer
    cseed,      \* the argument D
    cWorks,     \* Variables Works
    cResult,    \* Variables Result
    cCurrent,   \* auto const Current
    cpc,        \* position in the loop: "off" | "pop" | "expand" | "done"
    \* --- AnalyseVariableUsage (ModuleAnalysis.cpp:263-350) ---
    Candidates,         \* PseudoConstnessAnalysisState::Candidates
    Changed,            \* PseudoConstnessAnalysisState::Changed
    ConstCandidates,    \* AnalyseVariableUsage::ConstCandidates
    StaticCandidates,   \* AnalyseVariableUsage::StaticCandidates
    pc,                 \* "off" | "traverse" | "context" | "members" | "returned" | "dumped"
    curF,               \* the function definition being handled
    curBody,            \* its body: the statements of F->getBody()
    Analysis,           \* ScopeAnalysis const & Analysis, the handler's local
    todo,               \* what the running boost::for_each has not passed to Eval yet
    visited,            \* the function definitions TraverseDecl has visited
    reports,            \* the diagnostics Dump emitted: <<message, declaration>>
    mutated,            \* history: the variables a visited body mutates, by its statements
    mentioned,          \* history: the variables a visited body names
    entry,              \* history: Candidates and Changed when the running for_each began, and its range
    handled,            \* history: the bag of <<handler, function>> calls that have returned
    declared,           \* the function declarations without body TraverseDecl has visited
    \* --- MethodAnalysis (ScopeAnalysis.cpp:227-296) ---
    m_isConst,          \* MethodAnalysis::m_isConst
    mStmt,              \* clang::Stmt const * Stmt of VisitCXXThisExpr: the ancestor the walk is at
    mDepth,             \* how many ancestors of the occurrence the walk has been at
    mpc,                \* "off" | "traverse" | "loop" | "aborted" | "done"
    mClassified,        \* history: for every occurrence visited, whether it was found compatible
    \* --- VariableChangeCollector at a call (ScopeAnalysis.cpp:74-116) ---
    vStmt,              \* the call node the traversal is at
    vResults,           \* UsageRefsMap & Results: its keys
    vpc                 \* "off" | "traverse" | "VisitCallExpr" | "VisitDerived" | "done"

cvars == <<cdecls, cseed, cWorks, cResult, cCurrent, cpc>>

pvars == <<Candidates, Changed, ConstCandidates, StaticCandidates, pc, curF, curBody, Analysis,
           todo, visited, reports, mutated, mentioned, entry, handled, declared>>

mvars == <<m_isConst, mStmt, mDepth, mpc, mClassified>>

vvars == <<vStmt, vResults, vpc>>

vars == <<cvars, pvars, mvars, vvars>>

----------------------------------------------------------------------------
(* Bounds *)

\* number of variable declarations (clang::VarDecl) in the closure model
MaxVars == 2

\* number of statements in a function body of the pass model
MaxStmts == 2

----------------------------------------------------------------------------
(* Expressions (clang::Expr).  kind is the node class, decl the declaration *)
(* a DeclRefExpr / MemberExpr names, sub the child expressions.             *)

\* nullptr of type clang::DeclaratorDecl const *; it orders before every
\* declaration in a std::set of pointers
NullDecl == 0

NullExpr == [kind |-> "null", decl |-> NullDecl, sub |-> <<>>]

DeclRefExpr(d) == [kind |-> "DeclRefExpr", decl |-> d, sub |-> <<>>]

MemberExpr(base, d) == [kind |-> "MemberExpr", decl |-> d, sub |-> <<base>>]

UnaryOperator(e) == [kind |-> "UnaryOperator", decl |-> NullDecl, sub |-> <<e>>]

ParenExpr(e) == [kind |-> "ParenExpr", decl |-> NullDecl, sub |-> <<e>>]

CastExpr(e) == [kind |-> "CastExpr", decl |-> NullDecl, sub |-> <<e>>]

MaterializeTemporaryExpr(e) == [kind |-> "MaterializeTemporaryExpr", decl |-> NullDecl, sub |-> <<e>>]

ArraySubscriptExpr(base, idx) == [kind |-> "ArraySubscriptExpr", decl |-> NullDecl, sub |-> <<base, idx>>]

ConditionalOperator(c, t, f) == [kind |-> "ConditionalOperator", decl |-> NullDecl, sub |-> <<c, t, f>>]

IntegerLiteral == [kind |-> "IntegerLiteral", decl |-> NullDecl, sub |-> <<>>]

CXXThisExpr == [kind |-> "CXXThisExpr", decl |-> NullDecl, sub |-> <<>>]

\* a ScopeAnalysis that holds nothing: no handler is running
NoAnalysis == [Changed |-> {}, Used |-> {}]

\* no for_each is running
NoEntry == [Candidates |-> {}, Changed |-> {}, Range |-> {}]

\* m_parentMap->getParent() == 0: the statement has no parent
NullStmt == [node |-> "null"]

\* no VariableChangeCollector is at a call
CollectorOff == vStmt = NullStmt /\ vResults = {} /\ vpc = "off"

\* no MethodAnalysis has been constructed
MethodAnalysisOff ==
    /\ m_isConst = TRUE /\ mStmt = NullStmt /\ mDepth = 0 /\ mpc = "off" /\ mClassified = <<>>

\* the node classes StripExpr looks through, each with the child it keeps
StripKinds == {"ParenExpr", "CastExpr", "UnaryOperator", "MaterializeTemporaryExpr", "ArraySubscriptExpr"}

RECURSIVE StripExpr(_)
StripExpr(E) ==
    IF E.kind \in StripKinds THEN StripExpr(E.sub[1]) ELSE E

\* the inner while loop of CollectRefereeExpr: follow MemberExpr bases as
\* long as the base is itself a MemberExpr
RECURSIVE DigMemberExpr(_)
DigMemberExpr(ME) ==
    IF ME.sub[1].kind = "MemberExpr" THEN DigMemberExpr(ME.sub[1]) ELSE ME

\* the work-list loop of CollectRefereeExpr, Current being any element of
\* Works (the std::set orders expressions by address; the result is a set)
RECURSIVE CollectLoop(_, _)
CollectLoop(Works, Result) ==
    IF Works = {} THEN Result
    ELSE LET Current == CHOOSE e \in Works : TRUE
             Rest == Works \ {Current}
             Stripped == StripExpr(Current)
         IN  IF Stripped = NullExpr THEN CollectLoop(Rest, Result)
             ELSE IF Stripped.kind = "DeclRefExpr"
                  THEN CollectLoop(Rest, Result \cup {Stripped})
             ELSE IF Stripped.kind = "MemberExpr"
                  THEN CollectLoop(Rest, Result \cup {DigMemberExpr(Stripped)})
             ELSE IF Stripped.kind = "ConditionalOperator"
                  THEN CollectLoop(Rest \cup {Stripped.sub[2], Stripped.sub[3]}, Result)
             ELSE CollectLoop(Rest, Result)

CollectRefereeExpr(E) == CollectLoop({E}, {})

\* GetDeclarationFromExpr: the declaration a DeclRefExpr or MemberExpr names,
\* nullptr when the expression is neither or the declaration is not a
\* DeclaratorDecl (Declarators holds those that are)
GetDeclarationFromExpr(E, Declarators) ==
    LET RefVal == IF E.kind = "DeclRefExpr" THEN E.decl
                  ELSE IF E.kind = "MemberExpr" THEN E.decl
                  ELSE NullDecl
    IN  IF RefVal # NullDecl /\ RefVal \in Declarators THEN RefVal ELSE NullDecl

----------------------------------------------------------------------------
(* The declarations of the closure model: variables 1..MaxVars (VarDecl),   *)
(* one field (FieldDecl) and one enumerator (EnumConstantDecl, a ValueDecl  *)
(* that is no DeclaratorDecl).  Numbers stand for addresses: std::set       *)
(* iterates in this order.                                                  *)

CVarIds == 1..MaxVars

CFieldId == MaxVars + 1

CEnumId == MaxVars + 2

CDeclarators == CVarIds \cup {CFieldId}

\* clang::dyn_cast<clang::VarDecl const>(Current)
CIsVarDecl(d) == d \in CVarIds

\* the initializers a variable of the model may have (Variable->getInit())
CInitExprs ==
    {NullExpr, IntegerLiteral, DeclRefExpr(CEnumId)}
    \cup {DeclRefExpr(d) : d \in CVarIds}
    \cup {UnaryOperator(ParenExpr(DeclRefExpr(d))) : d \in CVarIds}
    \cup {CastExpr(MemberExpr(MemberExpr(DeclRefExpr(d), CFieldId), CFieldId)) : d \in CVarIds}
    \cup {ConditionalOperator(IntegerLiteral, DeclRefExpr(p[1]), ArraySubscriptExpr(DeclRefExpr(p[2]), IntegerLiteral)) :
            p \in {q \in CVarIds \X CVarIds : q[1] < q[2]}}

\* a declaration of the model: whether its type is a reference or pointer
\* type, and its initializer (int k = j; has one too)
CDeclAttrs ==
    {[isRefOrPtr |-> FALSE, init |-> e] : e \in {IntegerLiteral} \cup {DeclRefExpr(d) : d \in CVarIds}}
    \cup {[isRefOrPtr |-> TRUE, init |-> e] : e \in CInitExprs}

\* (*T).isReferenceType() || (*T).isPointerType(); the field of the model is
\* a pointer
IsReferenceOrPointerAlways(d) == TRUE

IsReferenceOrPointer(d) ==
    IF d \in CVarIds THEN cdecls[d].isRefOrPtr ELSE d = CFieldId

\* smallest address: *(Works.begin())
Min(S) == CHOOSE x \in S : \A y \in S : x <= y

----------------------------------------------------------------------------
(* GetReferedVariables as a loop: one step pops Current and files it,      *)
(* one step inserts what its initializer refers to.                        *)

CInit ==
    /\ cdecls \in [CVarIds -> CDeclAttrs]
    /\ cseed \in CVarIds \cup {CFieldId}
    /\ cWorks = {cseed}
    /\ cResult = {}
    /\ cCurrent = NullDecl
    /\ cpc = "pop"
    /\ Candidates = {} /\ Changed = {} /\ ConstCandidates = {} /\ StaticCandidates = {}
    /\ pc = "off" /\ curF = NullDecl /\ curBody = {} /\ Analysis = NoAnalysis /\ todo = {} /\ visited = {}
    /\ reports = {} /\ mutated = {} /\ mentioned = {}
    /\ entry = NoEntry /\ handled = EmptyBag /\ declared = {}
    /\ MethodAnalysisOff
    /\ CollectorOff

\* lines 158-167: nullptr is dropped
PopNull ==
    /\ cpc = "pop" /\ cWorks # {}
    /\ Min(cWorks) = NullDecl
    /\ cWorks' = cWorks \ {NullDecl}
    /\ UNCHANGED <<cdecls, cseed, cResult, cCurrent, cpc>>
    /\ UNCHANGED pvars
    /\ UNCHANGED mvars
    /\ UNCHANGED vvars

\* lines 158-174, 176: Current goes into Result; nothing more when it is
\* not of reference or pointer type or is no VarDecl
PopLeaf ==
    /\ cpc = "pop" /\ cWorks # {}
    /\ LET Current == Min(cWorks) IN
        /\ Current # NullDecl
        /\ ~(IsReferenceOrPointer(Current) /\ CIsVarDecl(Current))
        /\ cWorks' = cWorks \ {Current}
        /\ cResult' = cResult \cup {Current}
        /\ cCurrent' = Current
    /\ UNCHANGED <<cdecls, cseed, cpc>>
    /\ UNCHANGED pvars
    /\ UNCHANGED mvars
    /\ UNCHANGED vvars

\* lines 158-176: Current goes into Result and its initializer is read next
PopVariable ==
    /\ cpc = "pop" /\ cWorks # {}
    /\ LET Current == Min(cWorks) IN
        /\ Current # NullDecl
        /\ IsReferenceOrPointer(Current) /\ CIsVarDecl(Current)
        /\ cWorks' = cWorks \ {Current}
        /\ cResult' = cResult \cup {Current}
        /\ cCurrent' = Current
    /\ cpc' = "expand"
    /\ UNCHANGED <<cdecls, cseed>>
    /\ UNCHANGED pvars
    /\ UNCHANGED mvars
    /\ UNCHANGED vvars

\* lines 178-180: every referee of the initializer is inserted into Works
Expand ==
    /\ cpc = "expand"
    /\ cWorks' = cWorks \cup
          {GetDeclarationFromExpr(e, CDeclarators) : e \in CollectRefereeExpr(cdecls[cCurrent].init)}
    /\ cpc' = "pop"
    /\ UNCHANGED <<cdecls, cseed, cResult, cCurrent>>
    /\ UNCHANGED pvars
    /\ UNCHANGED mvars
    /\ UNCHANGED vvars

\* line 183: return Result
Return ==
    /\ cpc = "pop" /\ cWorks = {}
    /\ cpc' = "done"
    /\ UNCHANGED <<cdecls, cseed, cWorks, cResult, cCurrent>>
    /\ UNCHANGED pvars
    /\ UNCHANGED mvars
    /\ UNCHANGED vvars

CNext == PopNull \/ PopLeaf \/ PopVariable \/ Expand \/ Return

SpecClosure == CInit /\ [][CNext]_vars

\* the loop is sequential code: a step that can be taken is taken
FairClosure == CInit /\ [][CNext]_vars /\ WF_vars(CNext)

----------------------------------------------------------------------------
(* Claims about the reference closure *)

\* the declarations an initializer refers to, by the structure of the
\* expression: wrappers are transparent, a name gives its declaration, a
\* member access chain gives the member of its innermost access, a
\* conditional gives both branches
RECURSIVE Referees(_)
Referees(E) ==
    IF E.kind \in {"ParenExpr", "CastExpr", "UnaryOperator", "MaterializeTemporaryExpr", "ArraySubscriptExpr"}
        THEN Referees(E.sub[1])
    ELSE IF E.kind = "DeclRefExpr"
        THEN {E.decl} \cap (CVarIds \cup {CFieldId})
    ELSE IF E.kind = "MemberExpr"
        THEN IF E.sub[1].kind = "MemberExpr" THEN Referees(E.sub[1]) ELSE {E.decl}
    ELSE IF E.kind = "ConditionalOperator"
        THEN Referees(E.sub[2]) \cup Referees(E.sub[3])
    ELSE {}

\* X is a reference- or pointer-typed variable whose stripped initializer
\* resolves to Y
Aliases(X) ==
    IF X \in CVarIds /\ cdecls[X].isRefOrPtr THEN Referees(cdecls[X].init) ELSE {}

RECURSIVE ReflexiveTransitiveClosure(_)
ReflexiveTransitiveClosure(S) ==
    LET Further == S \cup UNION {Aliases(x) : x \in S}
    IN  IF Further = S THEN S ELSE ReflexiveTransitiveClosure(Further)

\* C4: GetReferedVariables terminates for every seed and every initializer
\* graph, cyclic ones included: the loop eventually returns.
C4_Terminates == <>(cpc = "done")

RECURSIVE OutermostObject(_)
OutermostObject(E) ==
    IF E.kind = "MemberExpr" THEN OutermostObject(E.sub[1])
    ELSE IF E.kind = "DeclRefExpr" THEN E.decl
    ELSE NullDecl

\* the fields a member access chain goes through (b and c for a.b.c)
RECURSIVE ChainFields(_)
ChainFields(E) ==
    IF E.kind = "MemberExpr" THEN {E.decl} \cup ChainFields(E.sub[1]) ELSE {}

\* C16: when the initializer of a reference- or pointer-typed variable of
\* the closure is a member access chain a.b.c, the closure gains the
\* declaration of the outermost object a and not the field b or c.
C16_ChainGivesOutermostObject ==
    cpc = "done" =>
        \A X \in cResult :
            (X \in CVarIds /\ cdecls[X].isRefOrPtr /\ StripExpr(cdecls[X].init).kind = "MemberExpr") =>
                LET Chain == StripExpr(cdecls[X].init)
                IN  /\ OutermostObject(Chain) \in cResult
                    /\ \A b \in ChainFields(Chain) : b \in cResult => b = cseed

----------------------------------------------------------------------------
(* The translation unit of the pass model.  Declarations are numbered; the *)
(* numbers only name them.                                                 *)

\* void f() { int k = 0; int & j = k; int const c = 2; ... } in the main file
k == 1

j == 2

c == 3

\* void K::M(int const & p) { ... }, defined in the main file
p == 4

\* class K { int m; void M(int const &); void N(); void g(); void gc() const;
\* static void gs(); }; declared in a header, N defined inline there
m == 5

M == 6

N == 7

g == 8

gc == 9

gs == 10

f == 11

\* callees: int inc(int); void show(int const &); void bump(int &);
\* void poke(int *); void mix(int, int &)
inc == 12

show == 13

bump == 14

poke == 15

mix == 16

\* methods of the class of an object variable: void set(); void get() const
set == 17

get == 18

\* more members of K, defined in a second translation unit (Methods.cpp):
\* int getValue() { return m; }  int & getReference() { return m; }
\* int * getPointer() { return &m; }
getValue == 19

getReference == 20

getPointer == 21

\* K();  ~K();  operator int();  virtual void virt();
ctor == 22

dtor == 23

conv == 24

virt == 25

\* K & operator=(K &&) = default;  not user-provided, its body is the
\* compiler's
impl == 26

\* K & operator=(K const & rhs) { ... return *this; }
asg == 27

\* void value2void(ComplexType & o) { o.foo(); }  (Arguments.cpp:18-21)
value2void == 28

o == 29

rhs == 30

\* struct ComplexType { void foo(); void foo() const; int & getRef();
\* int const & getRef() const; };  (Methods.cpp:102-106, Arguments.cpp:3-16)
foo == 31

getRef == 32

PVariables == {k, j, c, p, m, o, rhs}

PMethods == {M, N, g, gc, gs, getValue, getReference, getPointer, ctor, dtor, conv, virt, impl, asg}

PFunctions == {f, M, N}

\* the function definitions of the second translation unit
ClassFunctions == {getValue, getReference, getPointer, ctor, dtor, conv, virt, gs, gc, impl, asg, value2void}

\* clang::DeclaratorDecl: variables, fields, functions
PDeclarators == k..getRef

QualType(kind, isConst, pointeeConst) ==
    [kind |-> kind, isConst |-> isConst, pointeeConst |-> pointeeConst]

T_Int == QualType("value", FALSE, FALSE)

T_ConstInt == QualType("value", TRUE, FALSE)

T_IntRef == QualType("reference", FALSE, FALSE)

T_ConstIntRef == QualType("reference", FALSE, TRUE)

T_IntPtr == QualType("pointer", FALSE, FALSE)

\* D.getType()
getType(d) ==
    CASE d \in {j, o} -> T_IntRef
      [] d = c -> T_ConstInt
      [] d \in {p, rhs} -> T_ConstIntRef
      [] OTHER -> T_Int

\* Variable->getInit()
getInit(d) ==
    CASE d = j -> DeclRefExpr(k)
      [] d \in {k, c} -> IntegerLiteral
      [] OTHER -> NullExpr

\* F->decls(): the parameters and local variables of the function
decls(F) ==
    CASE F = f -> {k, j, c}
      [] F = M -> {p}
      [] F = asg -> {rhs}
      [] F = value2void -> {o}
      [] OTHER -> {}

IsParmVarDecl(d) == d \in {p, rhs, o}

\* a dispatch that takes no declaration for a method
IsCXXMethodDeclNever(F) == FALSE

\* clang::dyn_cast<clang::CXXMethodDecl const>(F)
IsCXXMethodDecl(F) == F \in PMethods

isVirtual(F) == F = virt

isStatic(F) == F = gs

isConst(F) == F \in {N, gc}

isUserProvided(F) == F \in PMethods \ {impl}

\* ModuleAnalysis.cpp:339-344: no constructor, conversion or destructor
IsCXXMethodDeclOnly(F) == F \in PMethods \ {ctor, conv, dtor}

\* the source location of the declaration is in the main file
IsFromMainModule(d) == d \notin {m, N, g, gc, gs}

\* ModuleAnalysis.cpp:114-124
GetVariablesFromContext(F, WithoutArgs) ==
    {D \in decls(F) : ~(WithoutArgs /\ IsParmVarDecl(D))}

\* ModuleAnalysis.cpp:127-135, for the class K of the methods
GetVariablesFromRecord == {m}

\* ModuleAnalysis.cpp:138-146
GetMethodsFromRecord == PMethods

----------------------------------------------------------------------------
(* Statements: the nodes of a function body the two collectors react to.   *)
(* node is the class, flag what the visitor asks of the operator, args the *)
(* operands or call arguments, fn the callee expression, callee the        *)
(* declaration the call resolves to.                                       *)

Callee(d, params, isMethod, const, static) ==
    [decl |-> d, params |-> params, isMethod |-> isMethod, isConst |-> const, isStatic |-> static]

\* getDirectCallee() == 0
NoCallee == Callee(NullDecl, <<>>, FALSE, FALSE, FALSE)

Stmt(node, flag, args, fn, callee) ==
    [node |-> node, flag |-> flag, args |-> args, fn |-> fn, callee |-> callee]

\* how a function names a variable: a field through the implicit this
Ref(v) == IF v = m THEN MemberExpr(CXXThisExpr, m) ELSE DeclRefExpr(v)

Assign(v) == Stmt("BinaryOperator", TRUE, <<Ref(v), IntegerLiteral>>, NullExpr, NoCallee)

SelfAssign(v) == Stmt("BinaryOperator", TRUE, <<Ref(v), Ref(v)>>, NullExpr, NoCallee)

Compare(v) == Stmt("BinaryOperator", FALSE, <<Ref(v), IntegerLiteral>>, NullExpr, NoCallee)

IncDec(v) == Stmt("UnaryOperator", TRUE, <<Ref(v)>>, NullExpr, NoCallee)

Call1(fun, type, arg) ==
    Stmt("CallExpr", FALSE, <<arg>>, DeclRefExpr(fun), Callee(fun, <<type>>, FALSE, FALSE, FALSE))

CallInc(v) == Call1(inc, T_Int, Ref(v))

CallShow(v) == Call1(show, T_ConstIntRef, Ref(v))

CallBump(v) == Call1(bump, T_IntRef, Ref(v))

CallPoke(v) == Call1(poke, T_IntPtr, UnaryOperator(Ref(v)))

CallMix(v, w) ==
    Stmt("CallExpr", FALSE, <<Ref(v), Ref(w)>>, DeclRefExpr(mix),
         Callee(mix, <<T_Int, T_IntRef>>, FALSE, FALSE, FALSE))

\* v.set(); and v.get();
CallSet(v) ==
    Stmt("CXXMemberCallExpr", FALSE, <<>>, MemberExpr(Ref(v), set), Callee(set, <<>>, TRUE, FALSE, FALSE))

CallGet(v) ==
    Stmt("CXXMemberCallExpr", FALSE, <<>>, MemberExpr(Ref(v), get), Callee(get, <<>>, TRUE, TRUE, FALSE))

\* new (&v) int;
PlacementNew(v) == Stmt("CXXNewExpr", FALSE, <<UnaryOperator(Ref(v))>>, NullExpr, NoCallee)

\* return this;
ReturnThis == Stmt("ReturnStmt", FALSE, <<CXXThisExpr>>, NullExpr, NoCallee)

\* g();  gc();  inside a method: this->g(), this->gc()
CallOwn(meth) ==
    Stmt("CXXMemberCallExpr", FALSE, <<>>, MemberExpr(CXXThisExpr, meth),
         Callee(meth, <<>>, TRUE, isConst(meth), FALSE))

\* gs();  a static member function is named without this
CallOwnStatic == Stmt("CallExpr", FALSE, <<>>, DeclRefExpr(gs), Callee(gs, <<>>, TRUE, FALSE, TRUE))

\* return m;  and  return &m;
ReturnField(v) == Stmt("ReturnStmt", FALSE, <<Ref(v)>>, NullExpr, NoCallee)

ReturnAddressOfField(v) == Stmt("ReturnStmt", FALSE, <<UnaryOperator(Ref(v))>>, NullExpr, NoCallee)

\* return *this;
ReturnDerefThis == Stmt("ReturnStmt", FALSE, <<UnaryOperator(CXXThisExpr)>>, NullExpr, NoCallee)

\* v.foo();  the overload resolution takes the non-const foo for a
\* non-const object, the result is discarded
CallFoo(v) ==
    Stmt("CXXMemberCallExpr", FALSE, <<>>, MemberExpr(Ref(v), foo), Callee(foo, <<>>, TRUE, FALSE, FALSE))

\* int & i = v.getRef();  the call node of the initializer
BindGetRef(v) ==
    Stmt("CXXMemberCallExpr", FALSE, <<>>, MemberExpr(Ref(v), getRef), Callee(getRef, <<>>, TRUE, FALSE, FALSE))

\* the statements a body of a function of the second translation unit is
\* made of
ClassStatements(F) ==
    CASE F = getValue -> {ReturnField(m), Assign(m), CallFoo(m), CallOwn(g)}
      [] F = getReference -> {ReturnField(m)}
      [] F = getPointer -> {ReturnAddressOfField(m)}
      [] F = asg -> {ReturnDerefThis, Assign(m)}
      [] F = value2void -> {CallFoo(o), BindGetRef(o)}
      [] F = gs -> {CallOwnStatic}
      [] OTHER -> {ReturnField(m)}

\* the variables a body of F can name
Operands(F) == decls(F) \cup (IF IsCXXMethodDecl(F) THEN GetVariablesFromRecord ELSE {})

\* what the compiler accepts as a modifiable lvalue in F: not a variable of
\* const-qualified type, not a field inside a const method
Modifiable(F, v) ==
    /\ v \notin {c, p}
    /\ ~(v = m /\ isConst(F))

\* the statements a body of F is made of
Statements(F) ==
    IF F \in ClassFunctions THEN ClassStatements(F) ELSE
    UNION {{Compare(v), CallInc(v)} : v \in Operands(F)}
    \cup UNION {{Assign(v), SelfAssign(v), IncDec(v), CallBump(v)} :
                    v \in {x \in Operands(F) : Modifiable(F, x)}}
    \cup {CallMix(q[1], q[2]) :
            q \in {r \in Operands(F) \X Operands(F) : r[1] # r[2] /\ Modifiable(F, r[2])}}
    \* the first local variable is also passed by const reference and by
    \* pointer, and used as a placement-new argument
    \cup (IF k \in Operands(F) THEN {CallShow(k), CallPoke(k), PlacementNew(k)} ELSE {})
    \cup (IF IsCXXMethodDecl(F) THEN {ReturnThis, CallOwn(gc), CallOwnStatic} ELSE {})
    \cup (IF IsCXXMethodDecl(F) /\ ~isConst(F) THEN {CallOwn(g)} ELSE {})

RECURSIVE SubsetsUpTo(_, _)
SubsetsUpTo(U, n) ==
    IF n = 0 THEN {{}}
    ELSE LET Prev == SubsetsUpTo(U, n - 1)
         IN  Prev \cup {b \cup {s} : b \in Prev, s \in U}

\* the bodies a function may have: up to MaxStmts of its statements
Bodies == [F \in PFunctions \cup ClassFunctions |-> SubsetsUpTo(Statements(F), MaxStmts)]

----------------------------------------------------------------------------
(* ScopeAnalysis::AnalyseThis: the mutation pass and the usage pass        *)

\* Register(Results, Stmt[, Type]): the declaration the expression names
\* becomes a key of the usage map
Register(E) ==
    {GetDeclarationFromExpr(StripExpr(E), PDeclarators)} \ {NullDecl}

\* IsCXXThisExpr::Check: the member access is made on the implicit object
RECURSIVE IsCXXThisExprCheck(_)
IsCXXThisExprCheck(E) ==
    LET Base == StripExpr(E.sub[1])
    IN  IF Base.kind = "CXXThisExpr" THEN TRUE
        ELSE IF Base.kind = "MemberExpr" THEN IsCXXThisExprCheck(Base)
        ELSE FALSE

\* registers an argument whatever the parameter type, as the first
\* VisitCallExpr did (part_000:137-141)
IsNonConstReferencedAlways(T) == TRUE

\* ScopeAnalysis.cpp:129-133
IsNonConstReferenced(T) ==
    T.kind \in {"reference", "pointer"} /\ ~T.pointeeConst

IsCallExpr(S) == S.node \in {"CallExpr", "CXXMemberCallExpr", "CXXOperatorCallExpr"}

\* a VisitCallExpr that takes no call for an operator call of a method
HasThisAsFirstArgumentNever(S) == FALSE

\* ScopeAnalysis.cpp:135-140
HasThisAsFirstArgument(S) ==
    S.node = "CXXOperatorCallExpr" /\ S.callee.decl # NullDecl /\ S.callee.isMethod

Minimum(a, b) == IF a < b THEN a ELSE b

\* ScopeAnalysis.cpp:74-92: the indices (from 0) of the arguments
\* VisitCallExpr registers
VisitCallExprArgs(S) ==
    LET Offset == IF HasThisAsFirstArgument(S) THEN 1 ELSE 0
        Args == Minimum(Len(S.args), Len(S.callee.params))
    IN  IF S.callee.decl = NullDecl THEN {}
        ELSE {It + Offset : It \in {i \in 0..(Args - 1) : IsNonConstReferenced(S.callee.params[i + 1])}}

\* ScopeAnalysis.cpp:74-92: what VisitCallExpr registers
VisitCallExpr(S) ==
    UNION {Register(S.args[i + 1]) : i \in {x \in VisitCallExprArgs(S) : x < Len(S.args)}}

\* a VisitCXXMemberCallExpr that does not ask whether the method is const
VisitCXXMemberCallExprConstToo(S) ==
    IF S.callee.decl # NullDecl /\ ~S.callee.isStatic THEN Register(S.fn.sub[1]) ELSE {}

\* ScopeAnalysis.cpp:95-102: getImplicitObjectArgument() is the base of the
\* callee expression
VisitCXXMemberCallExpr(S) ==
    IF S.callee.decl # NullDecl /\ ~S.callee.isConst /\ ~S.callee.isStatic
    THEN Register(S.fn.sub[1]) ELSE {}

\* ScopeAnalysis.cpp:105-116
VisitCXXOperatorCallExpr(S) ==
    IF S.callee.decl # NullDecl /\ S.callee.isMethod
       /\ ~S.callee.isConst /\ ~S.callee.isStatic /\ 0 < Len(S.args)
    THEN Register(S.args[1]) ELSE {}

\* what the mutation pass (VariableChangeCollector) registers at one node
VariableChangeCollector(S) ==
    \* VisitBinaryOperator, ScopeAnalysis.cpp:44-49
    (IF S.node = "BinaryOperator" /\ S.flag THEN Register(S.args[1]) ELSE {})
    \* VisitUnaryOperator, 52-57
    \cup (IF S.node = "UnaryOperator" /\ S.flag THEN Register(S.args[1]) ELSE {})
    \* VisitCXXConstructExpr, 60-71
    \cup (IF S.node = "CXXConstructExpr"
          THEN UNION {Register(S.args[i]) :
                       i \in {x \in 1..Minimum(Len(S.args), Len(S.callee.params)) :
                                IsNonConstReferenced(S.callee.params[x])}}
          ELSE {})
    \* VisitCallExpr, 74-92
    \cup (IF IsCallExpr(S) THEN VisitCallExpr(S) ELSE {})
    \* VisitCXXMemberCallExpr, 95-102
    \cup (IF S.node = "CXXMemberCallExpr" THEN VisitCXXMemberCallExpr(S) ELSE {})
    \* VisitCXXOperatorCallExpr, 105-116
    \cup (IF S.node = "CXXOperatorCallExpr" THEN VisitCXXOperatorCallExpr(S) ELSE {})
    \* VisitCXXNewExpr, 119-126
    \cup (IF S.node = "CXXNewExpr"
          THEN UNION {Register(S.args[i]) : i \in 1..Len(S.args)} ELSE {})

\* every expression the traversal of E visits
RECURSIVE SubExprs(_)
SubExprs(E) ==
    IF E = NullExpr THEN {}
    ELSE {E} \cup UNION {SubExprs(E.sub[i]) : i \in 1..Len(E.sub)}

\* the usage pass without VisitMemberExpr
VariableAccessCollectorDeclRefOnly(E) ==
    UNION {IF e.kind = "DeclRefExpr" THEN Register(e) ELSE {} : e \in SubExprs(E)}

\* what the usage pass (VariableAccessCollector) registers at the
\* expressions below E: VisitDeclRefExpr, VisitMemberExpr (164-174)
VariableAccessCollector(E) ==
    UNION {IF e.kind = "DeclRefExpr" THEN Register(e)
           ELSE IF e.kind = "MemberExpr" /\ IsCXXThisExprCheck(e) THEN Register(e)
           ELSE {} : e \in SubExprs(E)}

\* the expressions of a body: those of its statements and the initializers
\* of the local variables F declares in it
BodyExprs(F, Body) ==
    UNION {{S.args[i] : i \in 1..Len(S.args)} \cup {S.fn} : S \in Body}
    \cup {getInit(D) : D \in {x \in decls(F) : ~IsParmVarDecl(x)}}

\* ScopeAnalysis.cpp:189-200: the keys of Result.Changed and Result.Used
AnalyseThis(F, Body) ==
    [Changed |-> UNION {VariableChangeCollector(S) : S \in Body},
     Used |-> UNION {VariableAccessCollector(E) : E \in BodyExprs(F, Body)}]

\* ScopeAnalysis.cpp:202-208
WasChanged(A, Decl) == Decl \in A.Changed

WasReferenced(A, Decl) == Decl \in A.Used

\* the analysis of every body a function may have
Analyses == [F \in PFunctions \cup ClassFunctions |-> [Body \in Bodies[F] |-> AnalyseThis(F, Body)]]

----------------------------------------------------------------------------
(* What a body does to a variable, read off its statements: the terms the  *)
(* claims are stated in, and the history the pass model keeps of them.     *)

\* the variables an expression names
Named(E) ==
    {e.decl : e \in {x \in SubExprs(E) : x.kind \in {"DeclRefExpr", "MemberExpr"}}} \cap PVariables

\* the parameter the i-th argument of a call is bound to is passed by value
ByValue(S, i) == i <= Len(S.callee.params) /\ S.callee.params[i].kind = "value"

\* ... is bound to a reference or pointer to non-const
ByMutableReference(S, i) ==
    /\ i <= Len(S.callee.params)
    /\ S.callee.params[i].kind \in {"reference", "pointer"}
    /\ ~S.callee.params[i].pointeeConst

\* S assigns to V, increments or decrements it, passes it to a parameter that
\* is a reference or pointer to non-const, calls a non-const method on it or
\* uses it as a placement-new argument
Mutates(S, V) ==
    \/ S.node \in {"BinaryOperator", "UnaryOperator"} /\ S.flag /\ V \in Named(S.args[1])
    \/ S.node \in {"CallExpr", "CXXConstructExpr"}
            /\ \E i \in 1..Len(S.args) : ByMutableReference(S, i) /\ V \in Named(S.args[i])
    \/ S.node = "CXXMemberCallExpr" /\ ~S.callee.isConst /\ ~S.callee.isStatic
            /\ V \in Named(S.fn.sub[1])
    \/ S.node = "CXXNewExpr" /\ \E i \in 1..Len(S.args) : V \in Named(S.args[i])

\* the body mentions the implicit object: this, written or implied
MentionsThis(F, Body) ==
    \E E \in BodyExprs(F, Body) : \E e \in SubExprs(E) : e.kind = "CXXThisExpr"

\* the declared type is const-qualified, a reference looked through
DeclaredConst(V) ==
    \/ getType(V).kind = "value" /\ getType(V).isConst
    \/ getType(V).kind = "reference" /\ getType(V).pointeeConst

----------------------------------------------------------------------------
(* PseudoConstnessAnalysisState and AnalyseVariableUsage                   *)

\* ModuleAnalysis.cpp:103-105: D.getType().getNonReferenceType().isConstQualified()
\* IsConst without getNonReferenceType(): only the top-level qualifier
IsConstTopLevel(D) == getType(D).isConst

\* ModuleAnalysis.cpp:103-105
IsConst(D) ==
    LET T == getType(D)
    IN  IF T.kind = "reference" THEN T.pointeeConst ELSE T.isConst

\* Eval without Candidates.erase(V): a candidate stays one when a later
\* scope changes it
EvalCandidatesNoErase(A, V) ==
    IF ~WasChanged(A, V) /\ WasReferenced(A, V) /\ V \notin Changed /\ ~IsConst(V)
    THEN Candidates \cup {V}
    ELSE Candidates

\* Eval without the look-up in Changed: a changed variable becomes a
\* candidate again when a later scope only reads it
EvalCandidatesForgetful(A, V) ==
    IF WasChanged(A, V) THEN Candidates \ {V}
    ELSE IF WasReferenced(A, V) /\ ~IsConst(V) THEN Candidates \cup {V}
    ELSE Candidates

\* Eval that makes no candidate once anything is in Changed: what it
\* decides for V depends on the variables evaluated before V
EvalCandidatesAfterClean(A, V) ==
    IF WasChanged(A, V) THEN Candidates \ {V}
    ELSE IF WasReferenced(A, V) /\ Changed = {} /\ ~IsConst(V) THEN Candidates \cup {V}
    ELSE Candidates

\* ModuleAnalysis.cpp:84-95, the new value of Candidates
EvalCandidates(A, V) ==
    IF WasChanged(A, V) THEN Candidates \ {V}
    ELSE IF WasReferenced(A, V) /\ V \notin Changed /\ ~IsConst(V) THEN Candidates \cup {V}
    ELSE Candidates

\* ModuleAnalysis.cpp:84-95, the new value of Changed
EvalChanged(A, V) ==
    IF WasChanged(A, V) THEN Changed \cup {V} ELSE Changed

PInit ==
    /\ Candidates = {} /\ Changed = {} /\ ConstCandidates = {} /\ StaticCandidates = {}
    /\ pc = "traverse" /\ curF = NullDecl /\ curBody = {} /\ Analysis = NoAnalysis /\ todo = {} /\ visited = {}
    /\ reports = {} /\ mutated = {} /\ mentioned = {}
    /\ entry = NoEntry /\ handled = EmptyBag /\ declared = {}
    /\ MethodAnalysisOff
    /\ CollectorOff
    /\ cdecls = <<>> /\ cseed = NullDecl /\ cWorks = {} /\ cResult = {}
    /\ cCurrent = NullDecl /\ cpc = "off"

\* ModuleVisitor::VisitFunctionDecl (165-175) on a definition: the handler
\* analyses the body and starts its first for_each (267-269, 273-279)
VisitFunctionDecl(F, Body) ==
    /\ pc = "traverse"
    /\ F \notin visited
    /\ visited' = visited \cup {F}
    /\ curF' = F
    /\ curBody' = Body
    /\ Analysis' = Analyses[F][Body]
    /\ todo' = GetVariablesFromContext(F, IF IsCXXMethodDecl(F) THEN isVirtual(F) ELSE FALSE)
    /\ entry' = [Candidates |-> Candidates, Changed |-> Changed, Range |-> todo']
    /\ pc' = "context"
    /\ mutated' = mutated \cup {V \in PVariables : \E S \in Body : Mutates(S, V)}
    /\ mentioned' = mentioned \cup UNION {Named(E) : E \in BodyExprs(F, Body)}
    /\ UNCHANGED <<Candidates, Changed, ConstCandidates, StaticCandidates, reports, handled, declared>>
    /\ UNCHANGED cvars
    /\ UNCHANGED mvars
    /\ UNCHANGED vvars

\* one call of PseudoConstnessAnalysisState::Eval by the running for_each
Eval(V) ==
    /\ pc \in {"context", "members"}
    /\ V \in todo
    /\ Candidates' = EvalCandidates(Analysis, V)
    /\ Changed' = EvalChanged(Analysis, V)
    /\ todo' = todo \ {V}
    /\ UNCHANGED <<ConstCandidates, StaticCandidates, pc, curF, curBody, Analysis, visited, reports,
                   mutated, mentioned, entry, handled, declared>>
    /\ UNCHANGED cvars
    /\ UNCHANGED mvars
    /\ UNCHANGED vvars

\* OnFunctionDecl returns when its for_each is through (266-270)
EndFunctionDecl ==
    /\ pc = "context" /\ todo = {}
    /\ ~IsCXXMethodDecl(curF)
    /\ pc' = "returned"
    /\ handled' = handled (+) SetToBag({<<"OnFunctionDecl", curF>>})
    /\ UNCHANGED <<Candidates, Changed, ConstCandidates, StaticCandidates, curF, curBody, Analysis,
                   todo, visited, reports, mutated, mentioned, entry, declared>>
    /\ UNCHANGED cvars
    /\ UNCHANGED mvars
    /\ UNCHANGED vvars

\* OnCXXMethodDecl goes on to the member variables (280-281)
EvalMemberVariables ==
    /\ pc = "context" /\ todo = {}
    /\ IsCXXMethodDecl(curF)
    /\ todo' = GetVariablesFromRecord
    /\ entry' = [Candidates |-> Candidates, Changed |-> Changed, Range |-> todo']
    /\ pc' = "members"
    /\ UNCHANGED <<Candidates, Changed, ConstCandidates, StaticCandidates, curF, curBody, Analysis,
                   visited, reports, mutated, mentioned, handled, declared>>
    /\ UNCHANGED cvars
    /\ UNCHANGED mvars
    /\ UNCHANGED vvars

\* ModuleAnalysis.cpp:327-337
IsMutatingMethod(F) == ~isStatic(F) /\ ~isConst(F)

IsMemberMethod(F) == ~isStatic(F)

\* ModuleAnalysis.cpp:283-288
MethodIsChecked(F) ==
    ~isVirtual(F) /\ ~isStatic(F) /\ ~isConst(F) /\ isUserProvided(F) /\ IsCXXMethodDeclOnly(F)

\* ModuleAnalysis.cpp:289-298: nothing of the object is changed
LooksConst(A) ==
    LET MemberChanges == Cardinality({V \in GetVariablesFromRecord : WasChanged(A, V)})
        FunctionChanges ==
            Cardinality({G \in {x \in GetMethodsFromRecord : IsMutatingMethod(x)} : WasReferenced(A, G)})
    IN  0 = MemberChanges /\ 0 = FunctionChanges

\* ModuleAnalysis.cpp:301-309: nothing of the object is accessed
LooksStatic(A) ==
    LET MemberAccess == Cardinality({V \in GetVariablesFromRecord : WasReferenced(A, V)})
        FunctionAccess ==
            Cardinality({G \in {x \in GetMethodsFromRecord : IsMemberMethod(x)} : WasReferenced(A, G)})
    IN  0 = MemberAccess /\ 0 = FunctionAccess

\* the insertion into ConstCandidates without the else: every method that
\* looks const is inserted
InsertsConstNoElse(A, F) == MethodIsChecked(F) /\ LooksConst(A)

\* ModuleAnalysis.cpp:299-314: the branch that ends in
\* StaticCandidates.insert(F), and the else branch that ends in
\* ConstCandidates.insert(F)
InsertsStatic(A, F) == MethodIsChecked(F) /\ LooksConst(A) /\ LooksStatic(A)

InsertsConst(A, F) == MethodIsChecked(F) /\ LooksConst(A) /\ ~LooksStatic(A)

\* OnCXXMethodDecl, "then check the method itself" (283-315)
CheckMethod ==
    /\ pc = "members" /\ todo = {}
    /\ StaticCandidates' =
          IF InsertsStatic(Analysis, curF) THEN StaticCandidates \cup {curF} ELSE StaticCandidates
    /\ ConstCandidates' =
          IF InsertsConst(Analysis, curF) THEN ConstCandidates \cup {curF} ELSE ConstCandidates
    /\ pc' = "returned"
    /\ handled' = handled (+) SetToBag({<<"OnCXXMethodDecl", curF>>})
    /\ UNCHANGED <<Candidates, Changed, curF, curBody, Analysis, todo, visited, reports,
                   mutated, mentioned, entry, declared>>
    /\ UNCHANGED cvars
    /\ UNCHANGED mvars
    /\ UNCHANGED vvars

\* the handler has returned and its ScopeAnalysis is gone; TraverseDecl
\* goes on (VisitFunctionDecl returns true, 174)
TraverseOn ==
    /\ pc = "returned"
    /\ pc' = "traverse"
    /\ curF' = NullDecl
    /\ curBody' = {}
    /\ Analysis' = NoAnalysis
    /\ entry' = NoEntry
    /\ UNCHANGED <<Candidates, Changed, ConstCandidates, StaticCandidates, todo, visited,
                   reports, mutated, mentioned, handled, declared>>
    /\ UNCHANGED cvars
    /\ UNCHANGED mvars
    /\ UNCHANGED vvars

VariableMessage == "variable '%0' could be declared as const"

ConstMessage == "function '%0' could be declared as const"

StaticMessage == "function '%0' could be declared as static"

\* boost::for_each(Set, bind(Report..., DE, _1)): one diagnostic for every
\* element of the set
GenerateReports(Message, Set) == {<<Message, D>> : D \in Set}

\* AnalyseVariableUsage::Dump (318-324) with GenerateReports (97-100),
\* called by HandleTranslationUnit when the traversal is over (378-382)
Dump ==
    /\ pc = "traverse"
    /\ reports' = GenerateReports(VariableMessage, Candidates)
            \cup GenerateReports(ConstMessage, ConstCandidates)
            \cup GenerateReports(StaticMessage, StaticCandidates)
    /\ pc' = "dumped"
    /\ UNCHANGED <<Candidates, Changed, ConstCandidates, StaticCandidates, curF, curBody, Analysis,
                   todo, visited, mutated, mentioned, entry, handled, declared>>
    /\ UNCHANGED cvars
    /\ UNCHANGED mvars
    /\ UNCHANGED vvars

Next ==
    \/ \E F \in PFunctions : \E Body \in Bodies[F] : VisitFunctionDecl(F, Body)
    \/ \E V \in PVariables : Eval(V)
    \/ EndFunctionDecl
    \/ EvalMemberVariables
    \/ CheckMethod
    \/ TraverseOn
    \/ Dump

Init == PInit

Spec == Init /\ [][Next]_vars

----------------------------------------------------------------------------
(* The second translation unit: TraverseDecl visits its function          *)
(* declarations in the order of the source text.                          *)

Node(F, definition) == [decl |-> F, isThisDeclarationADefinition |-> definition]

\* int inc(int);  class K { ... void g(); int getValue(); ... };  then the
\* definitions
ClassUnit ==
    <<Node(inc, FALSE), Node(g, FALSE), Node(getValue, FALSE),
      Node(getValue, TRUE), Node(getReference, TRUE), Node(getPointer, TRUE),
      Node(ctor, TRUE), Node(dtor, TRUE), Node(conv, TRUE), Node(virt, TRUE),
      Node(gs, TRUE), Node(gc, TRUE), Node(impl, TRUE), Node(asg, TRUE),
      Node(value2void, TRUE)>>

\* the declarations TraverseDecl has been at
Position == Cardinality(visited) + Cardinality(declared)

\* ModuleVisitor::VisitFunctionDecl (165-175) on a declaration that is not
\* a definition: return true, line 167-169
VisitDeclaration ==
    /\ pc = "traverse"
    /\ Position < Len(ClassUnit)
    /\ ~ClassUnit[Position + 1].isThisDeclarationADefinition
    /\ declared' = declared \cup {ClassUnit[Position + 1].decl}
    /\ UNCHANGED <<Candidates, Changed, ConstCandidates, StaticCandidates, pc, curF, curBody,
                   Analysis, todo, visited, reports, mutated, mentioned, entry, handled>>
    /\ UNCHANGED cvars
    /\ UNCHANGED mvars
    /\ UNCHANGED vvars

\* ModuleVisitor::VisitFunctionDecl (165-175) on the next definition of the
\* unit, with any body it may have
VisitDefinition ==
    /\ Position < Len(ClassUnit)
    /\ ClassUnit[Position + 1].isThisDeclarationADefinition
    /\ \E Body \in Bodies[ClassUnit[Position + 1].decl] :
            VisitFunctionDecl(ClassUnit[Position + 1].decl, Body)

ClassNext ==
    \/ VisitDeclaration
    \/ VisitDefinition
    \/ \E V \in PVariables : Eval(V)
    \/ EndFunctionDecl
    \/ EvalMemberVariables
    \/ CheckMethod
    \/ TraverseOn
    \/ Dump

SpecClass == Init /\ [][ClassNext]_vars

----------------------------------------------------------------------------
(* Claims about the pass *)

\* C1: after any sequence of Eval calls, over any scopes and variables, no
\* declaration is in both Candidates and Changed.
C1_Disjoint == Candidates \cap Changed = {}

\* every function has been analysed, the last one changed the field, and a
\* local variable is a candidate
C1_Witness ==
    /\ pc = "returned" /\ curF = M /\ visited = PFunctions
    /\ WasChanged(Analysis, m) /\ m \in Changed
    /\ k \in Candidates

\* C2: Changed is absorbing: a declaration in Changed stays in Changed, is
\* in Candidates in no later state whatever later scopes report about it,
\* and is not reported.
C2_ChangedAbsorbing ==
    [][\A V \in Changed :
          /\ V \in Changed'
          /\ V \notin Candidates'
          /\ <<VariableMessage, V>> \notin reports']_vars

\* a scope that only reads the field has been evaluated after a scope that
\* changed it
C2_Witness ==
    /\ pc = "returned" /\ curF = N /\ M \in visited
    /\ m \in Changed
    /\ WasReferenced(Analysis, m) /\ ~WasChanged(Analysis, m)

\* V and what it aliases through the initializers of reference- and
\* pointer-typed variables
RECURSIVE ReferenceClosure(_)
ReferenceClosure(V) ==
    {V} \cup (IF getType(V).kind \in {"reference", "pointer"} /\ getInit(V) # NullExpr
              THEN UNION {ReferenceClosure(D) : D \in Named(getInit(V)) \ {V}}
              ELSE {})

\* C3: when a scope changed V, every declaration of the reference closure
\* of V is in Changed and not in Candidates once the scope is evaluated; for
\* int k=0; int &j=k; ++j; neither k nor j is a candidate.
C3_ClosureChanged ==
    pc = "returned" =>
        \A V \in Operands(curF) :
            WasChanged(Analysis, V) =>
                \A D \in ReferenceClosure(V) : D \in Changed /\ D \notin Candidates

\* the scopes in which V is evaluated: some visited function declares it or
\* is a method of its class
Scoped(V) == \E F \in visited : V \in Operands(F)

C7_SelfAssignmentReported ==
    pc = "returned" =>
        \A V \in decls(curF) :
            (/\ ~DeclaredConst(V)
             /\ SelfAssign(V) \in curBody
             /\ \A S \in curBody : Mutates(S, V) => S = SelfAssign(V))
            => V \in Candidates /\ V \notin Changed

\* the variables a call passes by value and in no other way
PassedByValueOnly(S) ==
    UNION {Named(S.args[i]) : i \in {x \in 1..Len(S.args) : ByValue(S, x)}}
    \ UNION {Named(S.args[i]) : i \in {x \in 1..Len(S.args) : ~ByValue(S, x)}}

\* C8: the mutation pass registers no argument of a call that is bound to a
\* by-value parameter, and a variable whose only use is to be passed by
\* value is a candidate.
C8_ByValueNotChanged ==
    pc = "returned" =>
        /\ \A S \in curBody :
              IsCallExpr(S) => PassedByValueOnly(S) \cap VariableChangeCollector(S) = {}
        /\ \A V \in decls(curF) :
              (/\ ~DeclaredConst(V)
               /\ CallInc(V) \in curBody
               /\ \A S \in curBody : V \in UNION {Named(E) : E \in BodyExprs(curF, {S})} => S = CallInc(V))
              => V \in Candidates

\* mix(k, j): k goes by value and is a candidate, j goes by reference and is
\* changed
C8_Witness ==
    /\ pc = "returned" /\ curF = f
    /\ CallMix(k, j) \in curBody
    /\ k \in Candidates /\ j \in Changed

\* C9: no diagnostic is emitted for a declaration outside the main file.
C9_MainModuleOnly ==
    pc = "dumped" => \A r \in reports : IsFromMainModule(r[2])

\* C10: a user-provided, non-virtual, non-static ordinary method, const or
\* not, is a static candidate exactly when its body does not mention this.
C10_StaticIffNoThis ==
    (/\ pc = "returned" /\ IsCXXMethodDecl(curF)
     /\ isUserProvided(curF) /\ ~isVirtual(curF) /\ ~isStatic(curF) /\ IsCXXMethodDeclOnly(curF))
    => (curF \in StaticCandidates <=> ~MentionsThis(curF, curBody))

\* C18: Eval adds V to Candidates only if, in the evaluated scope, V was
\* referenced and was not changed, V is not in Changed, and the type of V
\* with a top-level reference removed is not const-qualified; a variable
\* declared const (int const k = 2;) or as a reference to const is in
\* Candidates in no reachable state.
C18_CandidateConditions ==
    [][/\ \A V \in PVariables :
            (V \notin Candidates /\ V \in Candidates') =>
                /\ pc \in {"context", "members"} /\ V \in todo
                /\ V \in UNION {Named(E) : E \in BodyExprs(curF, curBody)}
                /\ ~WasChanged(Analysis, V)
                /\ V \notin Changed
                /\ ~DeclaredConst(V)
       /\ \A V \in Candidates' : ~DeclaredConst(V)]_vars

\* a pass that evaluated the const variable c and the reference to const p
\* in scopes that name them, and made a candidate of another variable
C18_Witness ==
    /\ pc = "dumped"
    /\ {c, p} \subseteq mentioned
    /\ Candidates # {}
    /\ Candidates \cap {c, p} = {}

\* what a for_each over Range leaves in Candidates and in Changed, said
\* without an order: from the sets E held when it began and the analysis A
CandidatesAfter(E, A) ==
    (E.Candidates \ {V \in E.Range : WasChanged(A, V)})
        \cup {V \in E.Range : /\ ~WasChanged(A, V) /\ WasReferenced(A, V)
                               /\ V \notin E.Changed /\ ~DeclaredConst(V)}

ChangedAfter(E, A) == E.Changed \cup {V \in E.Range : WasChanged(A, V)}

\* C14: the sets of the pass do not depend on the order in which the
\* variables of a scope are passed to Eval: whatever order the for_each
\* took, it ends with the same Candidates and Changed, those the sets at
\* its begin and the analysis determine, and it leaves ConstCandidates and
\* StaticCandidates to the method check.
C14_OrderIndependent ==
    (pc \in {"context", "members"} /\ todo = {}) =>
        /\ Candidates = CandidatesAfter(entry, Analysis)
        /\ Changed = ChangedAfter(entry, Analysis)
        /\ curF \notin ConstCandidates \cup StaticCandidates

\* a for_each over several variables is through, after an earlier scope
\* left a candidate: one variable of the range was changed in the scope,
\* another became a candidate
C14_Witness ==
    /\ pc = "context" /\ todo = {}
    /\ Cardinality(entry.Range) >= 2
    /\ entry.Candidates # {}
    /\ \E V \in entry.Range : V \notin entry.Changed /\ V \in Changed
    /\ \E V \in entry.Range : V \notin entry.Candidates /\ V \in Candidates

----------------------------------------------------------------------------
(* Claims about the methods of the second translation unit *)

\* C11: ConstCandidates and StaticCandidates are disjoint after any sequence
\* of method evaluations: no method is in both.
C11_ConstStaticDisjoint == ConstCandidates \cap StaticCandidates = {}

\* the traversal is through and left a method in each of the two sets
C11_Witness ==
    /\ pc = "dumped"
    /\ Position = Len(ClassUnit)
    /\ ConstCandidates # {}
    /\ StaticCandidates # {}

\* the declared return type of a getter of K: int, int &, int * (Methods.cpp:6-14)
ReturnType(F) ==
    CASE F = getReference -> T_IntRef
      [] F = getPointer -> T_IntPtr
      [] OTHER -> T_Int

\* the return type hands out no mutable access to the field: a value, a
\* reference to const or a pointer to const
ReturnsNoMutableAccess(F) ==
    ReturnType(F).kind = "value" \/ ReturnType(F).pointeeConst

\* the body only returns a field, or its address
OnlyReturnsField(Body) == Body \in {{ReturnField(m)}, {ReturnAddressOfField(m)}}

\* C13: a non-const method whose body only returns a field is a const
\* candidate exactly when its return type is a value, a reference to const
\* or a pointer to const; int & getReference() { return m_value; } and
\* int * getPointer() { return &m_value; } get no const warning.
C13_ConstByReturnType ==
    (pc = "returned" /\ curF \in {getValue, getReference, getPointer} /\ OnlyReturnsField(curBody)) =>
        (curF \in ConstCandidates <=> ReturnsNoMutableAccess(curF))

\* the functions whose definition TraverseDecl has been at and whose
\* handler has returned
Handled == {F \in visited : F # curF \/ pc = "returned"}

\* how often the handler was invoked for F
Invocations(Handler, F) == CopiesIn(<<Handler, F>>, handled)

\* C15: VisitFunctionDecl on a declaration that is not a definition invokes
\* neither handler and changes nothing of the analysis state; on a
\* definition it invokes exactly one handler exactly once, the method
\* handler for a C++ method and the function handler for any other function.
C15_Dispatch ==
    /\ [](\A F \in PDeclarators :
            /\ F \in Handled /\ F \in PMethods =>
                    Invocations("OnCXXMethodDecl", F) = 1 /\ Invocations("OnFunctionDecl", F) = 0
            /\ F \in Handled /\ F \notin PMethods =>
                    Invocations("OnFunctionDecl", F) = 1 /\ Invocations("OnCXXMethodDecl", F) = 0
            /\ F \notin Handled =>
                    Invocations("OnFunctionDecl", F) = 0 /\ Invocations("OnCXXMethodDecl", F) = 0)
    /\ [][declared' # declared =>
            UNCHANGED <<Candidates, Changed, ConstCandidates, StaticCandidates, reports,
                        handled, visited, curF, pc>>]_vars

\* the traversal went over declarations without body, over methods and
\* over a function, and every handler has returned
C15_Witness ==
    /\ pc = "traverse"
    /\ Position = Len(ClassUnit)
    /\ getValue \in declared /\ getValue \in visited /\ g \in declared
    /\ Invocations("OnFunctionDecl", value2void) = 1
    /\ Invocations("OnCXXMethodDecl", getValue) = 1

\* C17: constructors, destructors, conversion operators, virtual methods,
\* static methods and methods that are not user-provided are never added
\* to ConstCandidates or StaticCandidates; const methods are never added to
\* ConstCandidates; copy-assignment operators are never added to
\* StaticCandidates.
C17_ExcludedKinds ==
    /\ (ConstCandidates \cup StaticCandidates) \cap {ctor, dtor, conv, virt, gs, impl} = {}
    /\ ConstCandidates \cap {N, gc} = {}
    /\ asg \notin StaticCandidates

\* C19: a call of a non-const member function that has a const overload
\* does not disqualify the receiver when the result is discarded: the
\* parameter ComplexType & o with o.foo(); stays a const candidate and the
\* method whose body is m.foo(); is a const candidate; binding the result
\* to a non-const reference does disqualify.
C19_ConstOverload ==
    pc = "returned" =>
        /\ (curF = value2void /\ curBody = {CallFoo(o)}) => o \in Candidates
        /\ (curF = getValue /\ curBody = {CallFoo(m)}) => getValue \in ConstCandidates
        /\ (curF = value2void /\ BindGetRef(o) \in curBody) => o \notin Candidates

----------------------------------------------------------------------------
(* MethodAnalysis (ScopeAnalysis.cpp:227-296): a RecursiveASTVisitor over   *)
(* the body of a method.  VisitCXXThisExpr walks from an occurrence of the  *)
(* implicit object up the parent map, one ancestor per loop cycle.          *)

\* how many ancestors an occurrence of this has below the root of the body
MaxAncestors == 2

\* how many occurrences of this the body has
MaxOccurrences == 2

\* Expr->getType(): the type class, isConstQualified(), the pointee's
\* isConstQualified(); and Expr->isRValue()
ExprTypes ==
    {[class |-> "reference", isConstQualified |-> q, pointeeConst |-> FALSE, isRValue |-> FALSE] : q \in BOOLEAN}
    \cup {[class |-> "pointer", isConstQualified |-> FALSE, pointeeConst |-> q, isRValue |-> r] :
             q \in BOOLEAN, r \in BOOLEAN}
    \cup {[class |-> "builtin", isConstQualified |-> q, pointeeConst |-> FALSE, isRValue |-> r] :
             q \in BOOLEAN, r \in BOOLEAN}
    \cup {[class |-> "record", isConstQualified |-> FALSE, pointeeConst |-> FALSE, isRValue |-> FALSE]}

NoType == [class |-> "none", isConstQualified |-> FALSE, pointeeConst |-> FALSE, isRValue |-> FALSE]

\* a statement of the parent map: its node class, what the class is asked
\* (the opcode of a UnaryOperator, the kind of member of a MemberExpr) and,
\* for an expression the walk looks at, its type
ParentStmt(node, what, type) == [node |-> node, what |-> what, type |-> type]

Ancestors ==
    {ParentStmt("ImplicitCastExpr", "", t) : t \in ExprTypes}
    \cup {ParentStmt("UnaryOperator", op, t) : op \in {"UO_AddrOf", "UO_Deref"}, t \in ExprTypes}
    \cup {ParentStmt("UnaryOperator", "UO_LNot", NoType)}
    \cup {ParentStmt("MemberExpr", "FieldDecl", t) : t \in ExprTypes}
    \cup {ParentStmt("MemberExpr", d, NoType) : d \in {"CXXMethodDecl const", "CXXMethodDecl", "VarDecl"}}
    \cup {ParentStmt("CallExpr", "", NoType)}

\* lines 240-264: the ancestor is an expression the walk looks through
IsWalked(S) ==
    \/ S.node = "ImplicitCastExpr"
    \/ S.node = "UnaryOperator" /\ S.what \in {"UO_AddrOf", "UO_Deref"}
    \/ S.node = "MemberExpr" /\ S.what = "FieldDecl"

\* lines 251-254: the member is a method
IsMethodMember(S) == S.node = "MemberExpr" /\ S.what \in {"CXXMethodDecl const", "CXXMethodDecl"}

\* the test of a pointer without isRValue()
SettlesPointeeOnly(T) ==
    \/ T.class = "reference" /\ T.isConstQualified
    \/ T.class = "pointer" /\ T.pointeeConst
    \/ T.class = "builtin" /\ (T.isRValue \/ T.isConstQualified)

\* lines 266-283: the ancestor's type lets the walk return true
Settles(T) ==
    IF T.class = "reference" THEN T.isConstQualified
    ELSE IF T.class = "pointer" THEN T.pointeeConst /\ T.isRValue
    ELSE IF T.class = "builtin" THEN (IF T.isRValue THEN TRUE ELSE T.isConstQualified)
    ELSE FALSE

\* a walk that breaks on no type
BreaksOnTypeNever(T) == FALSE

\* lines 284-286: a type of another class breaks the loop
BreaksOnType(T) == T.class \notin {"reference", "pointer", "builtin"}

\* the end of VisitCXXThisExpr that forgets the assignment of line 289
AfterLoopKeeps(b) == b

\* line 289: m_isConst = false
AfterLoop(b) == FALSE

\* MethodAnalysis::MethodAnalysis (227-231), and TraverseStmt begins
MInit ==
    /\ m_isConst = TRUE
    /\ mStmt = NullStmt /\ mDepth = 0 /\ mClassified = <<>>
    /\ mpc = "traverse"
    /\ Candidates = {} /\ Changed = {} /\ ConstCandidates = {} /\ StaticCandidates = {}
    /\ pc = "off" /\ curF = NullDecl /\ curBody = {} /\ Analysis = NoAnalysis /\ todo = {} /\ visited = {}
    /\ reports = {} /\ mutated = {} /\ mentioned = {}
    /\ entry = NoEntry /\ handled = EmptyBag /\ declared = {}
    /\ cdecls = <<>> /\ cseed = NullDecl /\ cWorks = {} /\ cResult = {}
    /\ cCurrent = NullDecl /\ cpc = "off"
    /\ CollectorOff

\* the traversal comes to an occurrence of this: line 235, Stmt is its
\* parent
VisitCXXThisExpr(Parent) ==
    /\ mpc = "traverse"
    /\ Len(mClassified) < MaxOccurrences
    /\ mStmt' = Parent
    /\ mDepth' = 1
    /\ mpc' = "loop"
    /\ UNCHANGED <<m_isConst, mClassified>>
    /\ UNCHANGED <<cvars, pvars>>
    /\ UNCHANGED vvars

\* line 237: the loop condition fails, Stmt is 0 or m_isConst is false;
\* lines 289-290
LoopEnds ==
    /\ mpc = "loop"
    /\ ~(mStmt # NullStmt /\ m_isConst)
    /\ m_isConst' = AfterLoop(m_isConst)
    /\ mClassified' = Append(mClassified, FALSE)
    /\ mpc' = "aborted"
    /\ UNCHANGED <<mStmt, mDepth>>
    /\ UNCHANGED <<cvars, pvars>>
    /\ UNCHANGED vvars

\* lines 243-246, 256-258, 262-264, 284-286: break, then lines 289-290
Break ==
    /\ mpc = "loop"
    /\ mStmt # NullStmt /\ m_isConst
    /\ ~IsMethodMember(mStmt)
    /\ ~IsWalked(mStmt) \/ BreaksOnType(mStmt.type)
    /\ m_isConst' = AfterLoop(m_isConst)
    /\ mClassified' = Append(mClassified, FALSE)
    /\ mpc' = "aborted"
    /\ UNCHANGED <<mStmt, mDepth>>
    /\ UNCHANGED <<cvars, pvars>>
    /\ UNCHANGED vvars

\* a walk that takes every member function for const
MethodIsConstAlways(S) == TRUE

\* line 252: CXXMethodDecl->isConst()
MethodIsConst(S) == S.what = "CXXMethodDecl const"

\* lines 251-254: m_isConst &= CXXMethodDecl->isConst(); return true
MethodMember ==
    /\ mpc = "loop"
    /\ mStmt # NullStmt /\ m_isConst
    /\ IsMethodMember(mStmt)
    /\ m_isConst' = (m_isConst /\ MethodIsConst(mStmt))
    /\ mClassified' = Append(mClassified, MethodIsConst(mStmt))
    /\ mpc' = "traverse"
    /\ UNCHANGED <<mStmt, mDepth>>
    /\ UNCHANGED <<cvars, pvars>>
    /\ UNCHANGED vvars

\* lines 266-283: return true
Settle ==
    /\ mpc = "loop"
    /\ mStmt # NullStmt /\ m_isConst
    /\ IsWalked(mStmt) /\ ~BreaksOnType(mStmt.type)
    /\ Settles(mStmt.type)
    /\ mClassified' = Append(mClassified, TRUE)
    /\ mpc' = "traverse"
    /\ UNCHANGED <<m_isConst, mStmt, mDepth>>
    /\ UNCHANGED <<cvars, pvars>>
    /\ UNCHANGED vvars

\* line 237: Stmt = m_parentMap->getParent(Stmt), the root of the body has
\* no parent
WalkUp(Parent) ==
    /\ mpc = "loop"
    /\ mStmt # NullStmt /\ m_isConst
    /\ IsWalked(mStmt) /\ ~BreaksOnType(mStmt.type)
    /\ ~Settles(mStmt.type)
    /\ mDepth < MaxAncestors \/ Parent = NullStmt
    /\ mStmt' = Parent
    /\ mDepth' = mDepth + 1
    /\ UNCHANGED <<m_isConst, mpc, mClassified>>
    /\ UNCHANGED <<cvars, pvars>>
    /\ UNCHANGED vvars

\* TraverseStmt returns: no further occurrence
EndTraverse ==
    /\ mpc = "traverse"
    /\ mpc' = "done"
    /\ UNCHANGED <<m_isConst, mStmt, mDepth, mClassified>>
    /\ UNCHANGED <<cvars, pvars>>
    /\ UNCHANGED vvars

MNext ==
    \/ \E Parent \in Ancestors \cup {NullStmt} : VisitCXXThisExpr(Parent)
    \/ LoopEnds
    \/ Break
    \/ MethodMember
    \/ Settle
    \/ \E Parent \in Ancestors \cup {NullStmt} : WalkUp(Parent)
    \/ EndTraverse

SpecMethodAnalysis == MInit /\ [][MNext]_vars

----------------------------------------------------------------------------
(* Claims about MethodAnalysis *)

\* C12: MethodAnalysis::isConst() is true at the end of a walk iff every
\* occurrence of the implicit object the walk visited was classified
\* compatible; one incompatible occurrence makes it false, and once false
\* no later occurrence makes it true again.
C12_IsConstIffAllCompatible ==
    /\ [](mpc \in {"traverse", "aborted", "done"} =>
            (m_isConst <=> \A i \in 1..Len(mClassified) : mClassified[i]))
    /\ [][~m_isConst => ~m_isConst']_vars

\* a walk that is through: the first occurrence called a non-const method,
\* the traversal went on and visited a second occurrence
C12_Witness ==
    /\ mpc = "aborted"
    /\ Len(mClassified) = 2
    /\ ~mClassified[1]
    /\ ~m_isConst

\* the test the statement gives for an ancestor's type
TypeTest(T) ==
    CASE T.class = "pointer" -> T.pointeeConst /\ T.isRValue
      [] T.class = "builtin" -> T.isRValue \/ T.isConstQualified
      [] T.class = "reference" -> T.isConstQualified

\* C20: in the upward walk an ancestor of pointer type settles the
\* occurrence as compatible only if its pointee is const-qualified and the
\* expression is an rvalue; one of builtin type if it is an rvalue or
\* const-qualified; one of reference type only if it is const-qualified.
\* An ancestor of these type classes that fails its test settles nothing:
\* the walk goes on to the next ancestor.
C20_TypeTests ==
    [][(/\ mpc = "loop" /\ mStmt # NullStmt /\ m_isConst
        /\ mStmt.node \in {"ImplicitCastExpr", "UnaryOperator", "MemberExpr"}
        /\ mStmt.type.class \in {"pointer", "builtin", "reference"}) =>
            IF TypeTest(mStmt.type)
            THEN /\ mpc' = "traverse" /\ m_isConst'
                 /\ mClassified' = Append(mClassified, TRUE)
            ELSE /\ mpc' = "loop" /\ m_isConst'
                 /\ mClassified' = mClassified
                 /\ mDepth' = mDepth + 1]_vars

\* an occurrence settled at its second ancestor, an rvalue pointer to
\* const: the first ancestor had failed its test and the walk went on
C20_Witness ==
    /\ mpc = "traverse"
    /\ mDepth = 2
    /\ mClassified = <<TRUE>>
    /\ mStmt # NullStmt
    /\ mStmt.type.class = "pointer"

\* C21: when the walk reaches a member access that resolves to a member
\* function it stops at once and the verdict of the occurrence is the
\* constness of that function: compatible if it is const, otherwise the
\* verdict of the whole method becomes non-const; no ancestor above the
\* member access is examined.
C21_MethodMemberSettles ==
    [][(/\ mpc = "loop" /\ mStmt # NullStmt /\ m_isConst
        /\ mStmt.node = "MemberExpr"
        /\ mStmt.what \in {"CXXMethodDecl const", "CXXMethodDecl"}) =>
            /\ mpc' # "loop"
            /\ mStmt' = mStmt /\ mDepth' = mDepth
            /\ mClassified' = Append(mClassified, mStmt.what = "CXXMethodDecl const")
            /\ m_isConst' = (mStmt.what = "CXXMethodDecl const")]_vars

\* the walk went through one ancestor to the access of a non-const member
\* function and stopped there with the verdict non-const
C21_Witness ==
    /\ mpc = "traverse"
    /\ mDepth = 2
    /\ mStmt # NullStmt
    /\ mStmt.node = "MemberExpr" /\ mStmt.what = "CXXMethodDecl"
    /\ mClassified = <<FALSE>>
    /\ ~m_isConst

\* the ancestor is none of: implicit cast, address-of or dereference,
\* member access to a data field or a member function
IsForeignNode(S) ==
    ~(\/ S.node = "ImplicitCastExpr"
      \/ S.node = "UnaryOperator" /\ S.what \in {"UO_AddrOf", "UO_Deref"}
      \/ S.node = "MemberExpr" /\ S.what \in {"FieldDecl", "CXXMethodDecl const", "CXXMethodDecl"})

\* the ancestor is an expression whose type the walk reads, and the type
\* is none of reference, pointer, builtin
HasForeignType(S) ==
    /\ \/ S.node = "ImplicitCastExpr"
       \/ S.node = "UnaryOperator" /\ S.what \in {"UO_AddrOf", "UO_Deref"}
       \/ S.node = "MemberExpr" /\ S.what = "FieldDecl"
    /\ S.type.class \notin {"reference", "pointer", "builtin"}

\* C22: the occurrence is settled non-const, with no further ancestor
\* examined, as soon as an ancestor is none of implicit cast, address-of or
\* dereference, member access to a field or member function, or is one of
\* these with a type that is none of reference, pointer, builtin; and when
\* the ancestors are exhausted without a compatible verdict, the verdict
\* is non-const too.
C22_SettlesNonConst ==
    [][(/\ mpc = "loop" /\ m_isConst
        /\ \/ mStmt = NullStmt
           \/ mStmt # NullStmt /\ (IsForeignNode(mStmt) \/ HasForeignType(mStmt))) =>
            /\ mpc' = "aborted"
            /\ mStmt' = mStmt /\ mDepth' = mDepth
            /\ mClassified' = Append(mClassified, FALSE)
            /\ ~m_isConst']_vars

\* the walk went through one ancestor to a field of class type and
\* settled the occurrence non-const there
C22_Witness ==
    /\ mpc = "aborted"
    /\ mDepth = 2
    /\ mStmt # NullStmt
    /\ mStmt.node = "MemberExpr" /\ mStmt.what = "FieldDecl"
    /\ mStmt.type.class = "record"
    /\ mClassified = <<FALSE>>

----------------------------------------------------------------------------
(* VariableChangeCollector at one call node: RecursiveASTVisitor walks up  *)
(* the class hierarchy of the node, VisitCallExpr first, then the Visit    *)
(* method of the derived class (WalkUpFromCXXMemberCallExpr,               *)
(* WalkUpFromCXXOperatorCallExpr), all on the same Results.                *)

\* how many arguments a call and how many parameters a callee may have
MaxArgs == 2

\* the argument and receiver expressions of the calls: a variable, a
\* literal
CallOperands == {DeclRefExpr(k), IntegerLiteral}

\* P->getType() of a parameter
ParamTypes == {T_Int, T_IntRef, T_ConstIntRef, T_IntPtr}

RECURSIVE SeqsUpTo(_, _)
SeqsUpTo(U, n) ==
    IF n = 0 THEN {<<>>}
    ELSE LET Prev == SeqsUpTo(U, n - 1)
         IN  Prev \cup {Append(q, x) : q \in Prev, x \in U}

\* Stmt->getDirectCallee(), getMethodDecl(): a function, a method, a const
\* method, a static method, each with its parameter list; or none
Callees ==
    {Callee(mix, ps, FALSE, FALSE, FALSE) : ps \in SeqsUpTo(ParamTypes, MaxArgs)}
    \cup {Callee(set, ps, TRUE, FALSE, FALSE) : ps \in SeqsUpTo(ParamTypes, MaxArgs)}
    \cup {Callee(get, ps, TRUE, TRUE, FALSE) : ps \in SeqsUpTo(ParamTypes, MaxArgs)}
    \cup {Callee(gs, ps, TRUE, FALSE, TRUE) : ps \in SeqsUpTo(ParamTypes, MaxArgs)}
    \cup {NoCallee}

\* the call nodes of a well-formed AST: a plain call of a function or of a
\* static method, with fewer (an unprototyped callee), as many or more (a
\* variadic callee) arguments than parameters; a member call on a receiver;
\* an operator call, whose argument 0 is the object when the operator is a
\* method (a static operator() included), so that it has more arguments
\* than the method has parameters
CallNodes ==
    {Stmt("CallExpr", FALSE, as, DeclRefExpr(ce.decl), ce) :
        as \in SeqsUpTo(CallOperands, MaxArgs), ce \in {x \in Callees : ~x.isMethod \/ x.isStatic}}
    \cup {Stmt("CXXMemberCallExpr", FALSE, as, MemberExpr(recv, ce.decl), ce) :
        as \in SeqsUpTo(CallOperands, MaxArgs), recv \in CallOperands,
        ce \in {x \in Callees : x = NoCallee \/ (x.isMethod /\ ~x.isStatic)}}
    \cup UNION {{Stmt("CXXOperatorCallExpr", FALSE, <<recv>> \o as, DeclRefExpr(ce.decl), ce) :
                    recv \in CallOperands,
                    ce \in {x \in Callees : x.isMethod /\ Len(x.params) <= Len(as)}} :
                as \in SeqsUpTo(CallOperands, MaxArgs)}
    \cup UNION {{Stmt("CXXOperatorCallExpr", FALSE, as, DeclRefExpr(ce.decl), ce) :
                    ce \in {x \in Callees : ~x.isMethod /\ Len(x.params) <= Len(as)}} :
                as \in SeqsUpTo(CallOperands, MaxArgs)}

\* VariableChangeCollector Visitor(Result.Changed): the traversal is about
\* to come to a call, after nodes that registered any of the variables
VInit ==
    /\ vStmt = NullStmt
    /\ vResults \in {{}, {j}}
    /\ vpc = "traverse"
    /\ MethodAnalysisOff
    /\ Candidates = {} /\ Changed = {} /\ ConstCandidates = {} /\ StaticCandidates = {}
    /\ pc = "off" /\ curF = NullDecl /\ curBody = {} /\ Analysis = NoAnalysis /\ todo = {} /\ visited = {}
    /\ reports = {} /\ mutated = {} /\ mentioned = {}
    /\ entry = NoEntry /\ handled = EmptyBag /\ declared = {}
    /\ cdecls = <<>> /\ cseed = NullDecl /\ cWorks = {} /\ cResult = {}
    /\ cCurrent = NullDecl /\ cpc = "off"

\* Visitor.TraverseStmt comes to the call node S
TraverseCall(S) ==
    /\ vpc = "traverse"
    /\ vStmt' = S
    /\ vpc' = "VisitCallExpr"
    /\ UNCHANGED vResults
    /\ UNCHANGED <<cvars, pvars, mvars>>

\* VisitCallExpr (74-92); a plain CallExpr has no further Visit method
WalkUpFromCallExpr ==
    /\ vpc = "VisitCallExpr"
    /\ vResults' = vResults \cup VisitCallExpr(vStmt)
    /\ vpc' = IF vStmt.node = "CallExpr" THEN "done" ELSE "VisitDerived"
    /\ UNCHANGED vStmt
    /\ UNCHANGED <<cvars, pvars, mvars>>

\* VisitCXXMemberCallExpr (95-102)
WalkUpFromCXXMemberCallExpr ==
    /\ vpc = "VisitDerived"
    /\ vStmt.node = "CXXMemberCallExpr"
    /\ vResults' = vResults \cup VisitCXXMemberCallExpr(vStmt)
    /\ vpc' = "done"
    /\ UNCHANGED vStmt
    /\ UNCHANGED <<cvars, pvars, mvars>>

\* VisitCXXOperatorCallExpr (105-116)
WalkUpFromCXXOperatorCallExpr ==
    /\ vpc = "VisitDerived"
    /\ vStmt.node = "CXXOperatorCallExpr"
    /\ vResults' = vResults \cup VisitCXXOperatorCallExpr(vStmt)
    /\ vpc' = "done"
    /\ UNCHANGED vStmt
    /\ UNCHANGED <<cvars, pvars, mvars>>

VNext ==
    \/ \E S \in CallNodes : TraverseCall(S)
    \/ WalkUpFromCallExpr
    \/ WalkUpFromCXXMemberCallExpr
    \/ WalkUpFromCXXOperatorCallExpr

SpecCollector == VInit /\ [][VNext]_vars

----------------------------------------------------------------------------
(* Claims about the mutation pass at a call *)

\* the implicit receiver object of a member-function call: the base of
\* the callee expression of a member call, argument 0 of an operator call
Receiver(S) == IF S.node = "CXXMemberCallExpr" THEN S.fn.sub[1] ELSE S.args[1]

\* the call is a member call or an operator call, and what it calls is a
\* method that is neither const nor static
CallsMutatingMethod(S) ==
    /\ S.node \in {"CXXMemberCallExpr", "CXXOperatorCallExpr"}
    /\ S.callee.decl # NullDecl /\ S.callee.isMethod
    /\ ~S.callee.isConst /\ ~S.callee.isStatic

\* C23: the mutation pass registers the implicit receiver object of a
\* member-function call (a member call, or an operator call whose callee
\* is a method, argument 0 being the receiver) as changed if and only if
\* the called method is neither const nor static; a call of a const or
\* static method never registers its receiver.
C23_ReceiverChanged ==
    [][vpc = "VisitDerived" =>
            vResults' = vResults \cup
                (IF CallsMutatingMethod(vStmt) THEN Named(Receiver(vStmt)) ELSE {})]_vars

\* an operator call of a non-const method without parameters, on the
\* variable k: the receiver is registered
C23_Witness ==
    /\ vpc = "done"
    /\ vStmt.node = "CXXOperatorCallExpr"
    /\ CallsMutatingMethod(vStmt)
    /\ vStmt.callee.params = <<>>
    /\ vStmt.args[1] = DeclRefExpr(k)
    /\ k \in vResults

\* the parameter indices (from 0) the statement speaks of, and the shift of
\* the arguments of an operator call of a method
ParamIndices(S) ==
    {i \in 0..(Len(S.args) - 1) : i < Len(S.callee.params) /\ ByMutableReference(S, i + 1)}

ThisShift(S) == IF S.node = "CXXOperatorCallExpr" /\ S.callee.isMethod THEN 1 ELSE 0

\* C24: for a call with a resolvable direct callee and every parameter
\* index i below min(arguments, parameters), the mutation pass registers an
\* argument iff parameter i is a reference or pointer to non-const; it is
\* argument i for ordinary calls and argument i+1 for operator calls whose
\* callee is a method, and the index is always a valid argument index.  A
\* call without a resolvable direct callee registers no argument.
C24_ArgumentsChanged ==
    [][vpc = "VisitCallExpr" =>
            IF vStmt.callee.decl = NullDecl THEN vResults' = vResults
            ELSE /\ \A i \in ParamIndices(vStmt) : i + ThisShift(vStmt) < Len(vStmt.args)
                 /\ vResults' = vResults \cup
                        UNION {Named(vStmt.args[i + ThisShift(vStmt) + 1]) :
                                 i \in {x \in ParamIndices(vStmt) :
                                          x + ThisShift(vStmt) < Len(vStmt.args)}}]_vars

\* an operator call of a const method with an int & parameter: the
\* variable k, argument 1, is registered and not the object, argument 0
C24_Witness ==
    /\ vpc = "VisitDerived"
    /\ vStmt.node = "CXXOperatorCallExpr"
    /\ vStmt.callee.isMethod /\ vStmt.callee.isConst
    /\ vStmt.callee.params = <<T_IntRef>>
    /\ vStmt.args = <<IntegerLiteral, DeclRefExpr(k)>>
    /\ vResults = {k}

============================================================================
